---------------------------- MODULE Spec2Model ----------------------------
(***************************************************************************)
(* Model of oops_concepts/payment_service/index.py: payment methods        *)
(* (DebitCard, CreditCard, UPIWallet), CardValidator, PaymentProcessor and *)
(* PaymentService.                                                         *)
(*                                                                         *)
(* Strings are sequences of one-character strings.  Money amounts are      *)
(* integers (whole currency units).  A raised Python exception is a value: *)
(* an operator that may raise returns the exception's name in a field      *)
(* "raised", and None when nothing was raised.                             *)
(***************************************************************************)
EXTENDS Integers, Sequences, FiniteSets, TLC

VARIABLES
  now,        \* datetime.now(): [month |-> months since year 0, part |-> 0 | 1]
  methods,    \* the client's payment-method objects, by variable name
  processor,  \* PaymentProcessor._payment_method of the service's processor
  last,       \* the most recent call: its arguments and its outcome
  ticks,      \* number of clock steps taken so far
  ledger,     \* the wallet's initial balance and the sum of its SUCCESS amounts
  calls,      \* the pay calls that threads have in progress on the wallet
  mutex       \* the caller's lock around pay: whether used, and who holds it

vars == <<now, methods, processor, last, ticks, ledger, calls, mutex>>

\* Optional[T]: None is the empty set, a present value x is {x}
None    == {}
Some(x) == {x}
The(o)  == CHOOSE x \in o : TRUE

\* no exception raised
NoError == "none"

\* ------------------------------------------------------------------ bounds
MaxAmount  == 2    \* largest payment amount tried
MaxBalance == 2    \* largest initial wallet balance tried
MaxTicks   == 1    \* clock steps in one behaviour
NumThreads == 2    \* threads that share one wallet

\* ------------------------------------------------------------- PaymentStatus
SUCCESS            == "SUCCESS"
FAILED             == "FAILED"
INSUFFICIENT_FUNDS == "INSUFFICIENT_FUNDS"
INVALID_CARD       == "INVALID_CARD"
PaymentStatus      == {SUCCESS, FAILED, INSUFFICIENT_FUNDS, INVALID_CARD}

\* ------------------------------------------------------------------ CardType
DEBIT    == "DEBIT"
CREDIT   == "CREDIT"
CardType == {DEBIT, CREDIT}

\* ------------------------------------------------------------ string helpers
Digits == {"0", "1", "2", "3", "4", "5", "6", "7", "8", "9"}

DigitVal ==
  ("0" :> 0) @@ ("1" :> 1) @@ ("2" :> 2) @@ ("3" :> 3) @@ ("4" :> 4) @@
  ("5" :> 5) @@ ("6" :> 6) @@ ("7" :> 7) @@ ("8" :> 8) @@ ("9" :> 9)

\* str.isdigit(): non-empty and every character a digit
isdigit(s) == Len(s) > 0 /\ \A i \in 1..Len(s) : s[i] \in Digits

\* int(s) for a string of digits
RECURSIVE int(_)
int(s) == IF Len(s) = 0 THEN 0
          ELSE 10 * int(SubSeq(s, 1, Len(s) - 1)) + DigitVal[s[Len(s)]]

\* str.strip(): drop leading and trailing whitespace
RECURSIVE lstrip(_)
lstrip(s) == IF Len(s) > 0 /\ s[1] = " " THEN lstrip(Tail(s)) ELSE s

RECURSIVE rstrip(_)
rstrip(s) == IF Len(s) > 0 /\ s[Len(s)] = " "
             THEN rstrip(SubSeq(s, 1, Len(s) - 1)) ELSE s

strip(s) == rstrip(lstrip(s))

\* s.split("/")[-1]: what follows the last "/", the whole string without one
LastSegment(s) ==
  LET idx == {i \in 1..Len(s) : s[i] = "/"}
  IN  IF idx = {} THEN s
      ELSE SubSeq(s, (CHOOSE i \in idx : \A j \in idx : j <= i) + 1, Len(s))

Rep(c, n) == [i \in 1..n |-> c]

\* ------------------------------------------------------------- PaymentResult
PaymentResult(status, message, remaining_balance) ==
  [status |-> status, message |-> message,
   remaining_balance |-> remaining_balance]

\* as is_successful, but only FAILED counts as a failure
is_successful_unless_failed(result) == result.status # FAILED

is_successful(result) == result.status = SUCCESS

\* ------------------------------------------------------------- CardValidator
validate_card_number(card_number) ==
  Len(card_number) >= 16 /\ isdigit(card_number)

validate_cvv(cvv) == Len(cvv) \in {3, 4} /\ isdigit(cvv)

\* The month field of strptime's %m: "1[0-2]|0[1-9]|[1-9]", one or two
\* characters long.  The set of lengths mlen for which the first mlen
\* characters of s are a month and are followed by "/".
MonthLens(s) ==
  {mlen \in {1, 2} :
     /\ Len(s) > mlen
     /\ s[mlen + 1] = "/"
     /\ IF mlen = 1
        THEN s[1] \in Digits \ {"0"}
        ELSE \/ s[1] = "1" /\ s[2] \in {"0", "1", "2"}
             \/ s[1] = "0" /\ s[2] \in Digits \ {"0"}}

\* datetime.strptime(s, "%m/%y") when ylen = 2 and (s, "%m/%Y") when
\* ylen = 4: the month, "/", then exactly ylen digits and nothing after
\* them.  %y maps 00..68 to 2000..2068 and 69..99 to 1969..1999; year 0 is
\* out of datetime's range.  Every failure is a ValueError.
strptime(s, ylen) ==
  LET lens == MonthLens(s)
      mlen == CHOOSE l \in lens : TRUE
      ystr == SubSeq(s, mlen + 2, Len(s))
      yval == int(ystr)
      year == IF ylen = 2
              THEN (IF yval <= 68 THEN 2000 + yval ELSE 1900 + yval)
              ELSE yval
  IN  IF lens = {} \/ Len(s) # mlen + 1 + ylen \/ ~isdigit(ystr) \/ year = 0
      THEN [raised |-> "ValueError", value |-> None]
      ELSE [raised |-> NoError,
            value  |-> Some([month |-> year * 12 + int(SubSeq(s, 1, mlen)) - 1,
                             part  |-> 0])]

\* datetime comparison a > b
After(a, b) == a.month > b.month \/ (a.month = b.month /\ a.part > b.part)

validate_expiry_date(expiry_date, clock) ==
  LET exp_date == IF Len(LastSegment(expiry_date)) = 2
                  THEN strptime(expiry_date, 2)
                  ELSE strptime(expiry_date, 4)
  IN  IF exp_date.raised = "ValueError" THEN FALSE
      ELSE After(The(exp_date.value), clock)


\* ------------------------------------------------------------- PaymentMethod
\* PaymentMethod._validate_user_name: the stripped name, or a ValueError
validate_user_name(user_name) ==
  IF Len(user_name) = 0 \/ Len(strip(user_name)) = 0
  THEN [raised |-> "ValueError", message |-> "User name cannot be empty",
        value |-> None]
  ELSE [raised |-> NoError, message |-> "", value |-> Some(strip(user_name))]

\* as _validate_amount, but zero is let through
validate_amount_zero_allowed(amount) ==
  IF amount < 0
  THEN [raised |-> "ValueError", message |-> "Payment amount must be positive"]
  ELSE [raised |-> NoError, message |-> ""]

\* PaymentMethod._validate_amount: raises ValueError unless amount > 0
validate_amount(amount) ==
  IF amount <= 0
  THEN [raised |-> "ValueError", message |-> "Payment amount must be positive"]
  ELSE [raised |-> NoError, message |-> ""]

\* The text of a payment message, with the values formatted into it
Message(text, amount, available, via) ==
  [text |-> text, amount |-> amount, available |-> available, via |-> via]

\* ---------------------------------------------------------------------- Card
Card(kind, user_name, card_number, expiry_date, cvv) ==
  [kind |-> kind, user_name |-> user_name, card_number |-> card_number,
   expiry_date |-> expiry_date, cvv |-> cvv]

\* Card.__init__ (DebitCard and CreditCard inherit it): validates the user
\* name, the card number, the expiry date and the CVV, in this order; the
\* first invalid field raises and no object is produced.
CardInit(kind, user_name, card_number, expiry_date, cvv, clock) ==
  LET name == validate_user_name(user_name)
      fail(msg) == [raised |-> "ValueError", message |-> msg, value |-> None]
  IN  IF name.raised # NoError THEN fail(name.message)
      ELSE IF ~validate_card_number(card_number)
        THEN fail("Invalid card number. Must be at least 16 digits.")
      ELSE IF ~validate_expiry_date(expiry_date, clock)
        THEN fail("Invalid or expired date. Use MM/YY or MM/YYYY format.")
      ELSE IF ~validate_cvv(cvv)
        THEN fail("Invalid CVV. Must be 3 or 4 digits.")
      ELSE [raised |-> NoError, message |-> "",
            value |-> Some(Card(kind, The(name.value), card_number,
                                expiry_date, cvv))]

card_type(card) == IF card.kind = "DebitCard" THEN DEBIT ELSE CREDIT

get_masked_card_number(card) ==
  LET n == card.card_number
  IN  SubSeq(n, 1, 4) \o <<"-", "*", "*", "*", "*", "-", "*", "*", "*", "*", "-">>
        \o SubSeq(n, Len(n) - 3, Len(n))

CardDisplayInfo(card) ==
  <<card_type(card), " Card ending with ", get_masked_card_number(card)>>

\* as Card.pay, but without the try/except around _validate_amount
CardPay_uncaught(card, amount, clock) ==
  LET v == validate_amount(amount)
  IN  IF v.raised # NoError
      THEN [raised |-> v.raised, result |-> None]
      ELSE [raised |-> NoError,
            result |-> Some(PaymentResult(SUCCESS,
                         Message("Payment made via", amount, None,
                                 CardDisplayInfo(card)), None))]

\* as Card.pay, but the expiry date is validated again at payment time
CardPay_revalidating(card, amount, clock) ==
  LET v == validate_amount(amount)
  IN  IF v.raised = "ValueError"
      THEN [raised |-> NoError,
            result |-> Some(PaymentResult(FAILED,
                         Message(v.message, 0, None, <<>>), None))]
      ELSE IF ~validate_expiry_date(card.expiry_date, clock)
      THEN [raised |-> NoError,
            result |-> Some(PaymentResult(INVALID_CARD,
                         Message("Card expired", 0, None, <<>>), None))]
      ELSE [raised |-> NoError,
            result |-> Some(PaymentResult(SUCCESS,
                         Message("Payment made via", amount, None,
                                 CardDisplayInfo(card)), None))]

\* as Card.pay, but the result carries a balance of zero
CardPay_with_balance(card, amount, clock) ==
  LET v == validate_amount(amount)
  IN  IF v.raised = "ValueError"
      THEN [raised |-> NoError,
            result |-> Some(PaymentResult(FAILED,
                         Message(v.message, 0, None, <<>>), None))]
      ELSE [raised |-> NoError,
            result |-> Some(PaymentResult(SUCCESS,
                         Message("Payment made via", amount, None,
                                 CardDisplayInfo(card)), Some(0)))]

\* Card.pay: the ValueError of _validate_amount is caught and becomes a
\* FAILED result; otherwise SUCCESS.  No field of the card is read except
\* for the display text, and nothing is written.
CardPay(card, amount, clock) ==
  LET v == validate_amount(amount)
  IN  IF v.raised = "ValueError"
      THEN [raised |-> NoError,
            result |-> Some(PaymentResult(FAILED,
                         Message(v.message, 0, None, <<>>), None))]
      ELSE IF v.raised # NoError
      THEN [raised |-> v.raised, result |-> None]
      ELSE [raised |-> NoError,
            result |-> Some(PaymentResult(SUCCESS,
                         Message("Payment made via", amount, None,
                                 CardDisplayInfo(card)), None))]

\* ----------------------------------------------------------------- UPIWallet
UPIWallet(user_name, upi_id, balance) ==
  [kind |-> "UPIWallet", user_name |-> user_name, upi_id |-> upi_id,
   balance |-> balance]

validate_upi_id(upi_id) ==
  ~(Len(upi_id) = 0 \/ ~(\E i \in 1..Len(upi_id) : upi_id[i] = "@"))

validate_balance(balance) == ~(balance < 0)

\* UPIWallet.__init__: user name, UPI id, balance, in this order
WalletInit(user_name, upi_id, balance) ==
  LET name == validate_user_name(user_name)
      fail(msg) == [raised |-> "ValueError", message |-> msg, value |-> None]
  IN  IF name.raised # NoError THEN fail(name.message)
      ELSE IF ~validate_upi_id(upi_id) THEN fail("Invalid UPI ID format")
      ELSE IF ~validate_balance(balance) THEN fail("Balance cannot be negative")
      ELSE [raised |-> NoError, message |-> "",
            value |-> Some(UPIWallet(The(name.value), upi_id, balance))]

WalletDisplayInfo(wallet) == <<"UPI Wallet (", wallet.upi_id, ")">>

\* as UPIWallet.pay, but without the comparison of amount and balance
WalletPay_unchecked(wallet, amount) ==
  LET v == validate_amount(amount)
  IN  IF v.raised = "ValueError"
      THEN [raised |-> NoError, balance |-> wallet.balance,
            result |-> Some(PaymentResult(FAILED,
                         Message(v.message, 0, None, <<>>), None))]
      ELSE [raised |-> NoError, balance |-> wallet.balance - amount,
            result |-> Some(PaymentResult(SUCCESS,
                         Message("Payment made via", amount, None,
                                 WalletDisplayInfo(wallet)),
                         Some(wallet.balance - amount)))]

\* as UPIWallet.pay, but paying the whole balance is refused
WalletPay_strict(wallet, amount) ==
  LET v == validate_amount(amount)
  IN  IF v.raised = "ValueError"
      THEN [raised |-> NoError, balance |-> wallet.balance,
            result |-> Some(PaymentResult(FAILED,
                         Message(v.message, 0, None, <<>>), None))]
      ELSE IF amount >= wallet.balance
      THEN [raised |-> NoError, balance |-> wallet.balance,
            result |-> Some(PaymentResult(INSUFFICIENT_FUNDS,
                         Message("Insufficient balance", amount,
                                 Some(wallet.balance), <<>>), None))]
      ELSE [raised |-> NoError, balance |-> wallet.balance - amount,
            result |-> Some(PaymentResult(SUCCESS,
                         Message("Payment made via", amount, None,
                                 WalletDisplayInfo(wallet)),
                         Some(wallet.balance - amount)))]

\* as UPIWallet.pay, but a refused payment takes what is left
WalletPay_partial(wallet, amount) ==
  LET v == validate_amount(amount)
  IN  IF v.raised = "ValueError"
      THEN [raised |-> NoError, balance |-> wallet.balance,
            result |-> Some(PaymentResult(FAILED,
                         Message(v.message, 0, None, <<>>), None))]
      ELSE IF amount > wallet.balance
      THEN [raised |-> NoError, balance |-> 0,
            result |-> Some(PaymentResult(INSUFFICIENT_FUNDS,
                         Message("Insufficient balance", amount,
                                 Some(wallet.balance), <<>>), None))]
      ELSE [raised |-> NoError, balance |-> wallet.balance - amount,
            result |-> Some(PaymentResult(SUCCESS,
                         Message("Payment made via", amount, None,
                                 WalletDisplayInfo(wallet)),
                         Some(wallet.balance - amount)))]

\* UPIWallet.pay: returns the outcome and the wallet's balance afterwards
WalletPay(wallet, amount) ==
  LET v == validate_amount(amount)
  IN  IF v.raised = "ValueError"
      THEN [raised |-> NoError, balance |-> wallet.balance,
            result |-> Some(PaymentResult(FAILED,
                         Message(v.message, 0, None, <<>>), None))]
      ELSE IF v.raised # NoError
      THEN [raised |-> v.raised, balance |-> wallet.balance, result |-> None]
      ELSE IF amount > wallet.balance
      THEN [raised |-> NoError, balance |-> wallet.balance,
            result |-> Some(PaymentResult(INSUFFICIENT_FUNDS,
                         Message("Insufficient balance", amount,
                                 Some(wallet.balance), <<>>), None))]
      ELSE [raised |-> NoError, balance |-> wallet.balance - amount,
            result |-> Some(PaymentResult(SUCCESS,
                         Message("Payment made via", amount, None,
                                 WalletDisplayInfo(wallet)),
                         Some(wallet.balance - amount)))]

IsCard(m) == m.kind \in {"DebitCard", "CreditCard"}

\* method.pay(amount), dispatched on the object's class: the outcome and
\* the object afterwards
pay(m, amount, clock) ==
  IF IsCard(m)
  THEN LET o == CardPay(m, amount, clock)
       IN  [raised |-> o.raised, result |-> o.result, self |-> m]
  ELSE LET o == WalletPay(m, amount)
       IN  [raised |-> o.raised, result |-> o.result,
            self |-> [m EXCEPT !.balance = o.balance]]


\* ------------------------------------------------------------ PaymentService
\* PaymentService._log_payment_result: the lines printed for a result
log_payment_result(result) ==
  <<[icon |-> IF is_successful(result) THEN "ok" ELSE "x",
     text |-> result.message]>>
  \o (IF result.remaining_balance # None
      THEN <<[icon |-> "", text |-> result.remaining_balance]>> ELSE <<>>)
  \o (IF is_successful(result)
      THEN <<[icon |-> "", text |-> "---- Payment Successful ----"]>>
      ELSE <<[icon |-> "", text |-> "---- Payment Failed ----"]>>)

\* ------------------------------------------------------------------- inputs
\* The client's variables holding payment methods (main)
MethodVars == {"debit", "credit", "wallet"}
CardVars   == {"debit", "credit"}

KindOf(var) == IF var = "debit" THEN "DebitCard" ELSE "CreditCard"

Amounts == -1..MaxAmount

UserNames == {<<>>, <<" ">>, <<"G">>, <<" ", "G", " ">>}

CardNumbers ==
  {<<>>, Rep("5", 15), Rep("5", 16), Rep("5", 15) \o <<"x">>,
   Rep("5", 16) \o <<"x">>}

\* expiry dates given to constructors: the clock starts in November 2026
ExpiryDates ==
  { <<"1", "2", "/", "2", "6">>,                 \* valid, passes while running
    <<"1", "1", "/", "2", "6">>,                 \* the starting month
    <<"1", "0", "/", "2", "6">>,                 \* past
    <<"1", "/", "2", "7">>,                      \* one-digit month
    <<"1", "2", "-", "2", "6">> }                \* no "/"

CVVs == {<<"4", "4">>, <<"4", "4", "4">>,
         <<"4", "4", "4", "4", "4">>, <<"4", "4", "x">>, <<>>}

UpiIds == {<<>>, <<"g", "u">>, <<"@">>, <<"g", "@", "u">>}

Balances == -1..MaxBalance

CardArgsOf(user_name, card_number, expiry_date, cvv) ==
  [user_name |-> user_name, card_number |-> card_number,
   expiry_date |-> expiry_date, cvv |-> cvv]

\* the arguments of main's DebitCard(...), shortened
GoodCardArgs ==
  CardArgsOf(<<"G">>, Rep("5", 16), <<"1", "2", "/", "2", "6">>,
             <<"4", "4", "4">>)

\* valid too: 17 digits, MM/YYYY, a CVV of 4 digits
OtherCardArgs ==
  CardArgsOf(<<"G">>, Rep("5", 17), <<"1", "2", "/", "2", "0", "3", "5">>,
             <<"4", "4", "4", "4">>)

\* constructor arguments tried for the debit card: the good ones, the good
\* ones with one field replaced, and one with every field invalid
CardArgs ==
  {[GoodCardArgs EXCEPT !.user_name = u] : u \in UserNames}
  \cup {[GoodCardArgs EXCEPT !.card_number = n] : n \in CardNumbers}
  \cup {[GoodCardArgs EXCEPT !.expiry_date = e] : e \in ExpiryDates}
  \cup {[GoodCardArgs EXCEPT !.cvv = c] : c \in CVVs}
  \cup {CardArgsOf(<<>>, <<>>, <<>>, <<>>)}

\* constructor arguments tried for the credit card
CreditCardArgs ==
  {OtherCardArgs, [OtherCardArgs EXCEPT !.card_number = Rep("5", 15)]}

CardArgsFor(var) == IF var = "debit" THEN CardArgs ELSE CreditCardArgs

WalletArgsOf(user_name, upi_id, balance) ==
  [user_name |-> user_name, upi_id |-> upi_id, balance |-> balance]

WalletArgs ==
  {WalletArgsOf(u, <<"g", "@", "u">>, MaxBalance) : u \in UserNames}
  \cup {WalletArgsOf(<<"G">>, i, 0) : i \in UpiIds}
  \cup {WalletArgsOf(<<"G">>, <<"g", "@", "u">>, b) : b \in Balances}

\* --------------------------------------------------------------------- state
\* some time in November 2026, after the first instant of the month
Epoch == [month |-> 2026 * 12 + 10, part |-> 1]

\* what the client has seen of the wallet: the balance it was constructed
\* with, and the sum of the amounts of the calls that returned SUCCESS
Ledger(initial, paid) == [initial |-> initial, paid |-> paid]

\* the ledger after a call on the method `before` returned `result`
Booked(l, before, amount, result) ==
  IF /\ before # None
     /\ The(before).kind = "UPIWallet"
     /\ result # None
     /\ The(result).status = SUCCESS
  THEN Ledger(l.initial, l.paid + amount)
  ELSE l

Threads == 1..NumThreads

\* a thread with no pay call in progress
Idle == [pc |-> "idle", amount |-> 0, loaded |-> 0, result |-> None]

NoMutex == [used |-> FALSE, holder |-> None]

Init ==
  /\ now = Epoch
  /\ ticks = 0
  /\ methods = [v \in MethodVars |-> None]
  /\ processor = None                  \* PaymentService.__init__
  /\ last = [op |-> "start"]
  /\ ledger = Ledger(0, 0)
  /\ calls = [t \in Threads |-> Idle]
  /\ mutex = NoMutex

\* Time passes: to the first instant of the next month, then into that month
Tick ==
  /\ ticks < MaxTicks
  /\ ticks' = ticks + 1
  /\ now' = IF now.part = 0 THEN [now EXCEPT !.part = 1]
            ELSE [month |-> now.month + 1, part |-> 0]
  /\ UNCHANGED <<methods, processor, last, ledger, calls, mutex>>

\* debit = DebitCard(...) / credit = CreditCard(...)
ConstructCard(var, a) ==
  /\ var \in CardVars
  /\ methods[var] = None
  /\ LET c == CardInit(KindOf(var), a.user_name, a.card_number,
                       a.expiry_date, a.cvv, now)
     IN  /\ methods' = [methods EXCEPT ![var] = c.value]
         /\ last' = [op |-> "construct", target |-> var, args |-> a,
                     at |-> now, raised |-> c.raised, message |-> c.message]
  /\ UNCHANGED <<now, processor, ticks, ledger, calls, mutex>>

\* wallet = UPIWallet(...)
ConstructWallet(a) ==
  /\ methods["wallet"] = None
  /\ LET w == WalletInit(a.user_name, a.upi_id, a.balance)
     IN  /\ methods' = [methods EXCEPT !["wallet"] = w.value]
         /\ last' = [op |-> "construct", target |-> "wallet", args |-> a,
                     at |-> now, raised |-> w.raised, message |-> w.message]
         /\ ledger' = IF w.raised = NoError
                      THEN Ledger(The(w.value).balance, 0) ELSE ledger
  /\ UNCHANGED <<now, processor, ticks, calls, mutex>>

\* method.pay(amount) called directly by the client
Pay(var, amount) ==
  /\ methods[var] # None
  /\ LET m == The(methods[var])
         o == pay(m, amount, now)
     IN  /\ methods' = [methods EXCEPT ![var] = Some(o.self)]
         /\ last' = [op |-> "pay", target |-> Some(var), amount |-> amount,
                     at |-> now, before |-> Some(m), raised |-> o.raised,
                     result |-> o.result, returned |-> None,
                     printed |-> <<>>]
         /\ ledger' = Booked(ledger, Some(m), amount, o.result)
  /\ UNCHANGED <<now, processor, ticks, calls, mutex>>

\* PaymentProcessor.set_payment_method
SetPaymentMethod(var) ==
  /\ methods[var] # None
  /\ processor' = Some(var)
  /\ last' = [op |-> "set_payment_method", target |-> var]
  /\ UNCHANGED <<now, methods, ticks, ledger, calls, mutex>>

\* as process_payment, but a missing method gives a FAILED result
process_payment_null_safe(p, amount) ==
  IF p = None
  THEN [raised |-> NoError,
        result |-> Some(PaymentResult(FAILED,
                     Message("No payment method", 0, None, <<>>), None)),
        target |-> None, before |-> None, self |-> None]
  ELSE LET m == The(methods[The(p)])
           o == pay(m, amount, now)
       IN  [raised |-> o.raised, result |-> o.result, target |-> p,
            before |-> Some(m), self |-> Some(o.self)]

\* self._payment_method.pay(amount) on the method p refers to; with no
\* method set, the attribute lookup on None raises AttributeError
process_payment(p, amount) ==
  IF p = None
  THEN [raised |-> "AttributeError", result |-> None, target |-> None,
        before |-> None, self |-> None]
  ELSE LET m == The(methods[The(p)])
           o == pay(m, amount, now)
       IN  [raised |-> o.raised, result |-> o.result, target |-> p,
            before |-> Some(m), self |-> Some(o.self)]

\* PaymentProcessor.process_payment called directly by the client
ProcessPayment(amount) ==
  /\ LET o == process_payment(processor, amount)
     IN  /\ methods' = IF o.target = None THEN methods
                       ELSE [methods EXCEPT ![The(o.target)] = o.self]
         /\ last' = [op |-> "process_payment", target |-> o.target,
                     amount |-> amount, at |-> now, before |-> o.before,
                     raised |-> o.raised, result |-> o.result,
                     returned |-> None, printed |-> <<>>]
         /\ ledger' = Booked(ledger, o.before, amount, o.result)
  /\ UNCHANGED <<now, processor, ticks, calls, mutex>>

\* PaymentService.make_payment: set the method, process, log, return
MakePayment(var, amount) ==
  /\ methods[var] # None
  /\ processor' = Some(var)
  /\ LET o == process_payment(Some(var), amount)
     IN  /\ methods' = [methods EXCEPT ![var] = o.self]
         /\ last' = [op |-> "make_payment", target |-> Some(var),
                     amount |-> amount, at |-> now, before |-> o.before,
                     raised |-> o.raised, result |-> o.result,
                     returned |-> IF o.raised = NoError
                                  THEN Some(is_successful(The(o.result)))
                                  ELSE None,
                     printed |-> IF o.raised = NoError
                                 THEN log_payment_result(The(o.result))
                                 ELSE <<>>]
         /\ ledger' = Booked(ledger, o.before, amount, o.result)
  /\ UNCHANGED <<now, ticks, calls, mutex>>

Next ==
  \/ Tick
  \/ \E var \in CardVars : \E a \in CardArgsFor(var) : ConstructCard(var, a)
  \/ \E a \in WalletArgs : ConstructWallet(a)
  \/ \E var \in MethodVars, amount \in Amounts : Pay(var, amount)
  \/ \E var \in MethodVars : SetPaymentMethod(var)
  \/ \E amount \in Amounts : ProcessPayment(amount)
  \/ \E var \in MethodVars, amount \in Amounts : MakePayment(var, amount)

Spec == Init /\ [][Next]_vars

\* ------------------------------------------- CardValidator called on its own
MonthParts ==
  {<<>>, <<"0">>, <<"1">>, <<"0", "0">>, <<"0", "1">>, <<"1", "1">>,
   <<"1", "2">>, <<"1", "3">>, <<"0", "1", "2">>, <<"1", "x">>}

YearParts ==
  {<<>>, <<"2", "6">>, <<"2", "7">>, <<"6", "8">>, <<"6", "9">>, <<"2", "x">>,
   <<"0", "2", "7">>, <<"0", "0", "0", "0">>, <<"2", "0", "2", "6">>,
   <<"2", "0", "2", "7">>, <<"2", "0", "2", "7", "0">>}

\* expiry strings given to validate_expiry_date
ExpiryStrings ==
  {m \o <<"/">> \o y : m \in MonthParts, y \in YearParts}
  \cup {m \o y : m \in MonthParts, y \in {<<"2", "7">>, <<"2", "0", "2", "7">>}}
  \cup {<<"1", "2", "/", "2", "/", "2", "7">>, <<" ", "1", "2", "/", "2", "7">>,
        <<"1", "2", "/", "2", "7", " ">>, <<"1", "2", "-", "2", "7">>}

\* CardValidator.validate_expiry_date(s) called by the client
ValidateExpiryDate(s) ==
  /\ last' = [op |-> "validate_expiry_date", arg |-> s, at |-> now,
              returned |-> validate_expiry_date(s, now)]
  /\ UNCHANGED <<now, methods, processor, ticks, ledger, calls, mutex>>

NextExpiry ==
  \/ Tick
  \/ \E s \in ExpiryStrings : ValidateExpiryDate(s)

SpecExpiry == Init /\ [][NextExpiry]_vars


\* ------------------------------------- UPIWallet.pay, one thread step at a time
\* Threads share the wallet object.  A call goes through the statements of
\* UPIWallet.pay one at a time, and the read and the write of
\* "self._balance -= amount" are separate steps; other threads may run in
\* between.  When the caller uses a mutex around pay, a call begins only
\* while no other call holds it and gives it up when pay returns.
SharedWallet == The(methods["wallet"])

\* as the comparison of UPIWallet.pay, but it never refuses
InsufficientFunds_never(amount, balance) == FALSE

\* "if amount > self._balance"
InsufficientFunds(amount, balance) == amount > balance

\* pay has returned `result` to thread t; the caller's mutex is given up
Returned(t, result) ==
  /\ calls' = [calls EXCEPT ![t].pc = "done", ![t].result = Some(result)]
  /\ mutex' = IF mutex.holder = Some(t)
              THEN [mutex EXCEPT !.holder = None] ELSE mutex

\* thread t calls wallet.pay(amount)
Begin(t, amount) ==
  /\ calls[t].pc = "idle"
  /\ mutex.used => mutex.holder = None
  /\ mutex' = IF mutex.used THEN [mutex EXCEPT !.holder = Some(t)] ELSE mutex
  /\ calls' = [calls EXCEPT ![t] = [Idle EXCEPT !.pc = "validate",
                                                !.amount = amount]]
  /\ UNCHANGED <<now, methods, processor, last, ticks, ledger>>

\* self._validate_amount(amount), and the except clause when it raises
Validate(t) ==
  /\ calls[t].pc = "validate"
  /\ LET v == validate_amount(calls[t].amount)
     IN  IF v.raised = "ValueError"
         THEN Returned(t, PaymentResult(FAILED,
                            Message(v.message, 0, None, <<>>), None))
         ELSE /\ calls' = [calls EXCEPT ![t].pc = "check"]
              /\ UNCHANGED mutex
  /\ UNCHANGED <<now, methods, processor, last, ticks, ledger>>

\* if amount > self._balance: return INSUFFICIENT_FUNDS
Check(t) ==
  /\ calls[t].pc = "check"
  /\ IF InsufficientFunds(calls[t].amount, SharedWallet.balance)
     THEN Returned(t, PaymentResult(INSUFFICIENT_FUNDS,
                        Message("Insufficient balance", calls[t].amount,
                                Some(SharedWallet.balance), <<>>), None))
     ELSE /\ calls' = [calls EXCEPT ![t].pc = "load"]
          /\ UNCHANGED mutex
  /\ UNCHANGED <<now, methods, processor, last, ticks, ledger>>

\* self._balance -= amount: the read of self._balance
Load(t) ==
  /\ calls[t].pc = "load"
  /\ calls' = [calls EXCEPT ![t].pc = "store",
                            ![t].loaded = SharedWallet.balance]
  /\ UNCHANGED <<now, methods, processor, last, ticks, ledger, mutex>>

\* self._balance -= amount: the write of the difference
Store(t) ==
  /\ calls[t].pc = "store"
  /\ methods' = [methods EXCEPT !["wallet"] =
                   Some([SharedWallet EXCEPT
                           !.balance = calls[t].loaded - calls[t].amount])]
  /\ calls' = [calls EXCEPT ![t].pc = "return", ![t].loaded = 0]
  /\ UNCHANGED <<now, processor, last, ticks, ledger, mutex>>

\* return PaymentResult(SUCCESS, ..., self._balance)
Return(t) ==
  /\ calls[t].pc = "return"
  /\ Returned(t, PaymentResult(SUCCESS,
                    Message("Payment made via", calls[t].amount, None,
                            WalletDisplayInfo(SharedWallet)),
                    Some(SharedWallet.balance)))
  /\ UNCHANGED <<now, methods, processor, last, ticks, ledger>>

\* thread t drops the result and is ready for its next call
Finish(t) ==
  /\ calls[t].pc = "done"
  /\ calls' = [calls EXCEPT ![t] = Idle]
  /\ UNCHANGED <<now, methods, processor, last, ticks, ledger, mutex>>

\* one wallet, constructed with some balance, shared by all threads; the
\* caller either puts a mutex around every pay or around none
InitConcurrent ==
  /\ now = Epoch
  /\ ticks = 0
  /\ \E b \in 0..MaxBalance :
       /\ methods = [v \in MethodVars |->
                      IF v = "wallet"
                      THEN WalletInit(<<"G">>, <<"g", "@", "u">>, b).value
                      ELSE None]
       /\ ledger = Ledger(b, 0)
  /\ processor = None
  /\ last = [op |-> "start"]
  /\ calls = [t \in Threads |-> Idle]
  /\ \E used \in BOOLEAN : mutex = [used |-> used, holder |-> None]

NextConcurrent ==
  \/ \E t \in Threads, amount \in 0..MaxAmount : Begin(t, amount)
  \/ \E t \in Threads : Validate(t)
  \/ \E t \in Threads : Check(t)
  \/ \E t \in Threads : Load(t)
  \/ \E t \in Threads : Store(t)
  \/ \E t \in Threads : Return(t)
  \/ \E t \in Threads : Finish(t)

SpecConcurrent == InitConcurrent /\ [][NextConcurrent]_vars

\* ==================================================================== claims
PayOps == {"pay", "process_payment", "make_payment"}

\* the last call was a payment that reached a payment method
Paid == last.op \in PayOps /\ last.target # None

PaidBefore == The(last.before)               \* the method before that call
PaidAfter  == The(methods[The(last.target)]) \* the method after it
PaidStatus == The(last.result).status

\* C1: the balance of every constructed UPIWallet is >= 0 in every state,
\* whatever amounts were paid and through whichever entry point.
C1_BalanceNeverNegative ==
  \A v \in MethodVars :
    (methods[v] # None /\ The(methods[v]).kind = "UPIWallet")
      => The(methods[v]).balance >= 0

\* an amount larger than the balance was just requested from a wallet
C1_Witness ==
  /\ Paid
  /\ PaidBefore.kind = "UPIWallet"
  /\ last.amount > PaidBefore.balance
  /\ PaidAfter.balance >= 0

\* C2: on a wallet with balance B, pay(a) with 0 < a <= B returns SUCCESS,
\* leaves balance B - a and reports remaining_balance B - a; pay(a) with
\* a > B and a > 0 returns INSUFFICIENT_FUNDS and leaves the balance B.
C2_WalletPayOutcome ==
  (Paid /\ PaidBefore.kind = "UPIWallet") =>
    LET B == PaidBefore.balance
        a == last.amount
    IN  /\ (0 < a /\ a <= B) =>
              /\ last.raised = NoError
              /\ PaidStatus = SUCCESS
              /\ PaidAfter.balance = B - a
              /\ The(last.result).remaining_balance = Some(B - a)
        /\ (a > B /\ a > 0) =>
              /\ last.raised = NoError
              /\ PaidStatus = INSUFFICIENT_FUNDS
              /\ PaidAfter.balance = B

\* the whole balance was just paid
C2_Witness ==
  /\ Paid
  /\ PaidBefore.kind = "UPIWallet"
  /\ last.amount = PaidBefore.balance
  /\ last.amount > 0
  /\ PaidStatus = SUCCESS
  /\ PaidAfter.balance = 0

\* C3: pay(amount) with amount <= 0 returns FAILED on every payment method
\* and changes no wallet balance.
C3_NonPositiveAmountFails ==
  (Paid /\ last.amount <= 0) =>
    /\ last.raised = NoError
    /\ PaidStatus = FAILED
    /\ PaidAfter = PaidBefore

\* zero was just requested from a wallet whose balance is zero
C3_Witness ==
  /\ Paid
  /\ PaidBefore.kind = "UPIWallet"
  /\ PaidBefore.balance = 0
  /\ last.amount = 0
  /\ PaidStatus = FAILED

\* C4: a payment on a constructed method always returns a PaymentResult and
\* never raises; a non-positive amount and insufficient funds are statuses.
C4_PayNeverRaises ==
  Paid =>
    /\ last.raised = NoError
    /\ last.result # None
    /\ PaidStatus \in PaymentStatus
    /\ (last.amount <= 0 \/ (PaidBefore.kind = "UPIWallet"
                               /\ last.amount > PaidBefore.balance))
         => PaidStatus # SUCCESS

\* a non-positive amount was just requested from a card through the service
C4_Witness ==
  /\ Paid
  /\ last.op = "make_payment"
  /\ IsCard(PaidBefore)
  /\ last.amount <= 0
  /\ last.raised = NoError
  /\ PaidStatus = FAILED

\* the expiry date of a constructed card, as a datetime
ExpiryOf(card) ==
  The((IF Len(LastSegment(card.expiry_date)) = 2
       THEN strptime(card.expiry_date, 2)
       ELSE strptime(card.expiry_date, 4)).value)

\* C5: a card payment with amount > 0 returns SUCCESS, and a card payment
\* never returns INSUFFICIENT_FUNDS, also when the card has expired since
\* it was constructed.
C5_CardPayAlwaysSucceeds ==
  (Paid /\ IsCard(PaidBefore)) =>
    /\ last.amount > 0 => PaidStatus = SUCCESS
    /\ PaidStatus # INSUFFICIENT_FUNDS

\* a positive amount was just paid with a card that had expired by then
C5_Witness ==
  /\ Paid
  /\ IsCard(PaidBefore)
  /\ last.amount > 0
  /\ ~After(ExpiryOf(PaidBefore), last.at)
  /\ PaidStatus = SUCCESS

\* C6: make_payment returns true exactly when the result of the method's
\* pay has status SUCCESS; pay runs once, and logging changes neither the
\* returned value nor a balance.
C6_MakePaymentReturnsSuccess ==
  last.op = "make_payment" =>
    /\ last.returned = Some(PaidStatus = SUCCESS)
    /\ Len(last.printed) >= 2
    /\ IF PaidBefore.kind = "UPIWallet" /\ PaidStatus = SUCCESS
       THEN PaidAfter = [PaidBefore EXCEPT
                           !.balance = PaidBefore.balance - last.amount]
       ELSE PaidAfter = PaidBefore

\* the service just returned false for a wallet short of funds
C6_Witness ==
  /\ last.op = "make_payment"
  /\ PaidStatus = INSUFFICIENT_FUNDS
  /\ last.returned = Some(FALSE)
  /\ Len(last.printed) = 2


\* "MM/YY": two digits of a month 01..12, "/", two digits
IsMMYY(s) ==
  /\ Len(s) = 5
  /\ s[3] = "/"
  /\ \A i \in {1, 2, 4, 5} : s[i] \in Digits
  /\ 10 * DigitVal[s[1]] + DigitVal[s[2]] \in 1..12

\* "MM/YYYY": two digits of a month 01..12, "/", four digits
IsMMYYYY(s) ==
  /\ Len(s) = 7
  /\ s[3] = "/"
  /\ \A i \in {1, 2, 4, 5, 6, 7} : s[i] \in Digits
  /\ 10 * DigitVal[s[1]] + DigitVal[s[2]] \in 1..12

\* the first instant of the month that a well-formed expiry string names
\* (two-digit years 00..68 are 2000..2068, 69..99 are 1969..1999)
DateOf(s) ==
  LET mm == 10 * DigitVal[s[1]] + DigitVal[s[2]]
      yy == 10 * DigitVal[s[4]] + DigitVal[s[5]]
      year == IF Len(s) = 5
              THEN (IF yy <= 68 THEN 2000 + yy ELSE 1900 + yy)
              ELSE 100 * yy + 10 * DigitVal[s[6]] + DigitVal[s[7]]
  IN  [month |-> 12 * year + mm - 1, part |-> 0]

\* an unexpired, well-formed expiry at the time t
UnexpiredExpiry(s, t) ==
  (IsMMYY(s) \/ IsMMYYYY(s)) /\ After(DateOf(s), t)

\* the fields of a constructor call are all valid at the time t
FieldsValid(var, a, t) ==
  /\ \E i \in 1..Len(a.user_name) : a.user_name[i] # " "
  /\ IF var \in CardVars
     THEN /\ Len(a.card_number) >= 16
          /\ \A i \in 1..Len(a.card_number) : a.card_number[i] \in Digits
          /\ UnexpiredExpiry(a.expiry_date, t)
          /\ Len(a.cvv) \in {3, 4}
          /\ \A i \in 1..Len(a.cvv) : a.cvv[i] \in Digits
     ELSE /\ \E i \in 1..Len(a.upi_id) : a.upi_id[i] = "@"
          /\ a.balance >= 0

\* C7: construction succeeds exactly when every field is valid (for a Card:
\* non-blank user name, at least 16 digits, unexpired well-formed expiry,
\* CVV of 3 or 4 digits; for a UPIWallet: non-blank user name, "@" in the
\* UPI id, balance >= 0); a failed construction raises and leaves no object.
C7_ConstructionIffValid ==
  last.op = "construct" =>
    /\ (last.raised = NoError) <=> FieldsValid(last.target, last.args, last.at)
    /\ (last.raised = NoError) <=> (methods[last.target] # None)

\* C8: validate_expiry_date(s) is true exactly when s is MM/YY or MM/YYYY
\* and names a date strictly after the current one; past dates and malformed
\* strings give false.
C8_ExpiryValidIffWellFormedFuture ==
  last.op = "validate_expiry_date" =>
    (last.returned <=> UnexpiredExpiry(last.arg, last.at))

\* C9: remaining_balance is set only in results of UPIWallet payments; the
\* result of a DebitCard or CreditCard payment never carries it.
C9_RemainingBalanceOnlyForWallet ==
  (Paid /\ last.result # None) =>
    /\ The(last.result).remaining_balance # None
         => PaidBefore.kind = "UPIWallet"
    /\ IsCard(PaidBefore) => The(last.result).remaining_balance = None

\* a card payment just succeeded and its result carries no balance
C9_Witness ==
  /\ Paid
  /\ IsCard(PaidBefore)
  /\ PaidStatus = SUCCESS
  /\ The(last.result).remaining_balance = None

\* C10: process_payment with no method set raises and returns no result;
\* once a method is set, it is the most recently set method that pays.
C10_ProcessPaymentNeedsMethod ==
  last.op = "process_payment" =>
    /\ last.target = processor
    /\ processor = None =>
         /\ last.raised # NoError
         /\ last.result = None
    /\ processor # None =>
         /\ last.raised = NoError
         /\ last.result = pay(PaidBefore, last.amount, last.at).result
         /\ PaidAfter = pay(PaidBefore, last.amount, last.at).self

\* process_payment was just called on the fresh service's processor while
\* a constructed method was at hand but not set
C10_Witness ==
  /\ last.op = "process_payment"
  /\ processor = None
  /\ \E v \in MethodVars : methods[v] # None
  /\ last.raised = "AttributeError"
  /\ last.result = None


\* C12: after any sequence of sequential pay calls on one wallet, its
\* balance is the initial balance minus the sum of the amounts of the calls
\* that returned SUCCESS; FAILED and INSUFFICIENT_FUNDS calls change nothing,
\* so no call raises the balance.
C12_BalanceIsInitialMinusPaid ==
  /\ methods["wallet"] # None =>
       /\ The(methods["wallet"]).balance = ledger.initial - ledger.paid
       /\ ledger.paid >= 0
  /\ (Paid /\ PaidBefore.kind = "UPIWallet") =>
       /\ PaidAfter.balance <= PaidBefore.balance
       /\ PaidStatus # SUCCESS => PaidAfter.balance = PaidBefore.balance

\* a call just succeeded after an earlier call had already succeeded
C12_Witness ==
  /\ Paid
  /\ PaidBefore.kind = "UPIWallet"
  /\ PaidStatus = SUCCESS
  /\ last.amount < ledger.paid
  /\ PaidAfter.balance = ledger.initial - ledger.paid


\* C11: pay has no concurrency control of its own, the comparison with the
\* balance and the decrement being separate steps: the balance of a wallet
\* shared by concurrent pay calls can become negative only when the caller
\* does not serialize the calls; with a mutex around every pay it stays >= 0
\* under every interleaving.
C11_NegativeOnlyIfNotSerialized ==
  SharedWallet.balance < 0 => ~mutex.used

\* without a mutex, every thread's call has returned SUCCESS and the
\* balance is negative
C11_Witness ==
  /\ ~mutex.used
  /\ SharedWallet.balance < 0
  /\ \A t \in Threads :
       /\ calls[t].pc = "done"
       /\ The(calls[t].result).status = SUCCESS

=============================================================================
